---- MODULE Spec2Model ----
\* A model of the CasperJS tester (src/modules/tester.js): the assertion
\* engine, the structural comparator testEquals, suite discovery, and the
\* polling scheduler installed by runSuites.
EXTENDS Integers, Sequences, FiniteSets, TLC

VARIABLES
    pc,               \* "constructed" | "scheduled" | "exited" | "threw": position of the
                      \* runSuites call; "resolved" when only its queue is built
    running,          \* Tester.running
    currentTestFile,  \* Tester.currentTestFile (NullFile models null)
    testResults,      \* Tester.testResults: [passed, failed, failures]
    testFiles,        \* runSuites' local testFiles: the resolved queue
    current,          \* runSuites' local current: the cursor into testFiles
    interval,         \* "none" | "active" | "cleared": the setInterval timer
    halted,           \* the process has exited (casper.exit took effect)
    exits,            \* statuses passed to casper.exit, in call order
    output,           \* banners written by bar() and renderResults, in order
    started,          \* queue positions handed to runTest, in call order
    lastBody,         \* what the suite started last did while runTest ran it
    status,           \* per queue position: "queued" | "active" | "completed"
    late,             \* completion signals issued by suites that had already completed
    calls,            \* number of assertion calls made so far
    lastCall,         \* the last assertion method called: [op, cond, ret]; cond is the
                      \* condition given, for assertRaises whether the function threw
    v1, v2, eqResult, \* a direct call of testEquals: its arguments and result
    options,          \* Tester.options: [save], the path of the report log (NullFile: none)
    arguments,        \* the paths given to runSuites when only its queue is built
    fsWrite           \* "none" | "done" | "threw": how the fs.write of the report log ended

vars == <<pc, running, currentTestFile, testResults, testFiles, current,
          interval, halted, exits, output, started, lastBody, status, late,
          calls, lastCall, v1, v2, eqResult, options, arguments, fsWrite>>

----------------------------------------------------------------------------
\* JavaScript values. A value is a record with a type tag; primitives and
\* functions carry their content as text in v, arrays and objects carry
\* their own enumerable properties in props (a function from keys to values).

Undefined == [tag |-> "undefined", v |-> "undefined"]
Null == [tag |-> "null", v |-> "null"]
True == [tag |-> "boolean", v |-> "true"]
False == [tag |-> "boolean", v |-> "false"]
Num(s) == [tag |-> "number", v |-> s]
Str(s) == [tag |-> "string", v |-> s]
Fn(src) == [tag |-> "function", v |-> src]
Obj(p) == [tag |-> "object", props |-> p]
Arr(p) == [tag |-> "array", props |-> p]
NaN == Num("NaN")
Err(text) == [tag |-> "error", v |-> text]

Bool(b) == IF b THEN True ELSE False

\* utils.betterTypeOf: the refined type tag of a value
BetterTypeOf(x) == x.tag

\* utils.isFunction
IsFunction(x) == BetterTypeOf(x) = "function"

\* x instanceof Object: arrays, plain objects and functions
InstanceOfObject(x) == x.tag \in {"object", "array", "function"}

\* Object.keys(x) for an array or object
ObjectKeys(x) == DOMAIN x.props

\* x[k]: a property read; a missing key reads as undefined
Get(x, k) == IF k \in DOMAIN x.props THEN x.props[k] ELSE Undefined

\* a === b on primitives: NaN is not identical to itself
StrictEquals(a, b) == a = b /\ a # NaN

\* !!x: JavaScript truthiness
Truthy(x) ==
    CASE x.tag \in {"undefined", "null"} -> FALSE
      [] x.tag = "boolean" -> x.v = "true"
      [] x.tag = "number" -> x.v \notin {"0", "NaN"}
      [] x.tag = "string" -> x.v # ""
      [] OTHER -> TRUE

\* Tester.testEquals
RECURSIVE testEquals(_, _)
testEquals(a, b) ==
    IF BetterTypeOf(a) # BetterTypeOf(b) THEN FALSE
    ELSE IF IsFunction(a) THEN a.v = b.v
    ELSE IF InstanceOfObject(a) /\ InstanceOfObject(b) THEN
        IF Cardinality(ObjectKeys(a)) # Cardinality(ObjectKeys(b)) THEN FALSE
        ELSE \A k \in ObjectKeys(a) : testEquals(Get(a, k), Get(b, k))
    ELSE StrictEquals(a, b)

----------------------------------------------------------------------------
\* The filesystem collaborator. A path is a sequence of names, a name is a
\* base and an extension. NullFile models a null currentTestFile.

Name(b, e) == [base |-> b, ext |-> e]
Dot == Name(".", "")
DotDot == Name("..", "")
NullFile == <<>>

PathT == <<Name("t", "")>>
PathSub == <<Name("t", ""), Name("sub", "")>>
PathEmpty == <<Name("e", "")>>
PathX == <<Name("x", "js")>>
PathTxt == <<Name("n", "txt")>>
PathMissing == <<Name("void", "")>>

\* what the tree holds: directory /t with a.js, sub/ and z.js; /t/sub with
\* c.js and notes.txt; the empty directory /e; the files /x.js and /n.txt
FsDirs == {PathT, PathSub, PathEmpty}
FsFiles == {PathT \o <<Name("a", "js")>>, PathT \o <<Name("z", "js")>>,
            PathSub \o <<Name("c", "js")>>, PathSub \o <<Name("notes", "txt")>>,
            PathX, PathTxt}

\* fs.isDirectory, fs.isFile, fs.exists
IsDirectory(p) == p \in FsDirs
IsFile(p) == p \in FsFiles
Exists(p) == IsDirectory(p) \/ IsFile(p)

\* fs.list: the entries of a directory in listing order, "." and ".." included
FsList(dir) ==
    IF dir = PathT THEN <<Dot, DotDot, Name("a", "js"), Name("sub", ""), Name("z", "js")>>
    ELSE IF dir = PathSub THEN <<Dot, DotDot, Name("c", "js"), Name("notes", "txt")>>
    ELSE <<Dot, DotDot>>

\* fs.pathJoin
PathJoin(dir, entry) == dir \o entry

\* fs.absolute: the absolute path whose components are not "." or ".."
Absolute(p) == SelectSeq(p, LAMBDA n : n \notin {Dot, DotDot})

\* utils.isJsFile: recognised by the extension of the last component
IsJsFile(p) == Len(p) > 0 /\ p[Len(p)].ext \in {"js", "coffee"}

\* Array.prototype.map
Map(f(_), s) == [i \in 1..Len(s) |-> f(s[i])]

\* Tester.findTestFiles
RECURSIVE findTestFiles(_)
RECURSIVE ConcatSubdirs(_, _, _)
\* the forEach of lines 360-364: it walks the entries listed for the
\* directory, appending each subdirectory's files to the accumulated list
ConcatSubdirs(listed, i, acc) ==
    IF i > Len(listed) THEN acc
    ELSE ConcatSubdirs(listed, i + 1,
            IF IsDirectory(listed[i]) THEN acc \o findTestFiles(listed[i]) ELSE acc)

findTestFiles(dir) ==
    IF ~IsDirectory(dir) THEN <<>>
    ELSE LET names == SelectSeq(FsList(dir), LAMBDA e : e # Dot /\ e # DotDot)
             entries == Map(LAMBDA e : Absolute(PathJoin(dir, <<e>>)), names)
             all == ConcatSubdirs(entries, 1, entries)
         IN  SelectSeq(all, LAMBDA e : IsJsFile(Absolute(PathJoin(dir, e))))

\* runSuites, lines 473-482: the queue built from the arguments
RECURSIVE ResolveArgs(_, _, _)
ResolveArgs(args, i, acc) ==
    IF i > Len(args) THEN acc
    ELSE ResolveArgs(args, i + 1,
            IF IsDirectory(args[i]) THEN acc \o findTestFiles(args[i])
            ELSE IF IsFile(args[i]) THEN Append(acc, args[i])
            ELSE acc)

\* an output entry: a banner text, its style, the path and the numbers it shows
Line(text, style, file, nums) == [text |-> text, style |-> style, file |-> file, nums |-> nums]

\* Tester.bar
Bar(text, style, file) == Line(text, style, file, <<>>)

\* runSuites, lines 474-476: the warning for each argument that does not exist
RECURSIVE MissingBars(_, _)
MissingBars(args, i) ==
    IF i > Len(args) THEN <<>>
    ELSE (IF ~Exists(args[i]) THEN <<Bar("Path doesn't exist", "RED_BAR", args[i])>> ELSE <<>>)
         \o MissingBars(args, i + 1)

----------------------------------------------------------------------------
\* The tester object. The operators below take the tester's fields as a
\* record t = [running, currentTestFile, testResults] and return it as the
\* method leaves it.

Tester == [running |-> running, currentTestFile |-> currentTestFile,
           testResults |-> testResults]

\* a variant of the 'fail' listener that stores nothing
FailListenerDrops(t, details) == t

\* the listener registered on 'fail', lines 72-74
FailListener(t, details) ==
    [t EXCEPT !.testResults.failures = Append(@, details)]

\* EventEmitter.emit: the listeners run before emit returns; the tester
\* registers one, on 'fail'
Emit(t, eventName, details) ==
    IF eventName = "fail" THEN FailListener(t, details) ELSE t

\* the details every assertion emits, lines 97-100
Details(t, message) == [message |-> message, file |-> t.currentTestFile]

\* a variant of the test of line 85: any truthy condition passes
AssertPassesTruthy(condition) == Truthy(condition)

\* the branch that lines 85-96 take: a pass only for the boolean true
AssertPasses(condition) == condition = True

\* Tester.assert
assert(t, condition, message) ==
    IF AssertPasses(condition)
    THEN Emit([t EXCEPT !.testResults.passed = @ + 1], "success", Details(t, message))
    ELSE Emit([t EXCEPT !.testResults.failed = @ + 1], "fail", Details(t, message))

\* what a call of assert evaluates to: the method has no return statement
AssertReturn(condition) == Undefined

\* Tester.assertEquals
assertEquals(t, testValue, expected, message) ==
    IF testEquals(testValue, expected)
    THEN Emit([t EXCEPT !.testResults.passed = @ + 1], "success", Details(t, message))
    ELSE Emit([t EXCEPT !.testResults.failed = @ + 1], "fail", Details(t, message))

\* RegExp.prototype.test: a pattern is the set of texts it matches
PatternTest(pattern, subject) == subject.v \in pattern

\* Tester.assertMatch
assertMatch(t, subject, pattern, message) ==
    IF PatternTest(pattern, subject)
    THEN Emit([t EXCEPT !.testResults.passed = @ + 1], "success", Details(t, message))
    ELSE Emit([t EXCEPT !.testResults.failed = @ + 1], "fail", Details(t, message))

\* Tester.assertNot
assertNot(t, condition, message) == assert(t, Bool(~Truthy(condition)), message)

\* Tester.pass and Tester.fail
pass(t, message) == assert(t, True, message)
fail(t, message) == assert(t, False, message)

\* a variant of assertRaises whose pass(message) follows the try statement
assertRaisesPassesAfter(t, outcome, message) ==
    pass(IF outcome.thrown THEN t ELSE fail(t, message), message)

\* Tester.assertRaises. outcome tells how fn.apply(null, args) ends: whether
\* it throws, and the value thrown. The try block calls fn and then fail,
\* which returns normally; the catch block, reached only from a throw of fn,
\* calls pass and does not look at the value.
assertRaises(t, outcome, message) ==
    LET tried == IF outcome.thrown
                 THEN [t |-> t, caught |-> TRUE]
                 ELSE [t |-> fail(t, message), caught |-> FALSE]
    IN  IF tried.caught THEN pass(tried.t, message) ELSE tried.t

\* a variant of done that leaves running as it is
DoneKeepsRunning(t) == t

\* Tester.done
done(t) == [t EXCEPT !.running = FALSE]

\* a variant of the 'step.error' listener that does not call done()
StepErrorListenerNoDone(t, e) == fail(t, e)

\* the listener registered on the driver's 'step.error', lines 67-70
StepErrorListener(t, e) == done(fail(t, e))

\* The synchronous part of a suite file: the assertions it makes while it is
\* evaluated, then how the evaluation ends: it returns leaving asynchronous
\* work behind ("async"), it calls done() before returning ("done"), or it
\* throws ("throw").
RECURSIVE RunAsserts(_, _, _)
RunAsserts(t, conds, i) ==
    IF i > Len(conds) THEN t
    ELSE RunAsserts(assert(t, conds[i], Str("m")), conds, i + 1)

ScriptError == Err("script error")
ExecError == Err("Can only exec() files with .js or .coffee extensions")
StepError == Err("step error")

\* phantom.processScriptError(e, file, callback): hands the error to the callback
ProcessScriptError(t, e) == done(fail(t, e))

\* the evaluation of the script, lines 323-333
EvalScript(t, body) ==
    LET u == RunAsserts(t, body.asserts, 1) IN
    CASE body.end = "async" -> u
      [] body.end = "done" -> done(u)
      [] body.end = "throw" -> ProcessScriptError(u, ScriptError)

\* whether exec rejects the file, lines 319-321
ExecThrows(file) == ~IsFile(file) \/ ~IsJsFile(file)

\* Tester.exec, when it does not throw
exec(t, file, body) == EvalScript([t EXCEPT !.currentTestFile = file], body)

\* a variant of the catch block that does not call done()
RunTestCatchNoDone(t, e) == fail(t, e)

\* the catch block of runTest, lines 511-516
RunTestCatch(t, e) == done(fail(t, e))

\* Tester.runTest
runTest(t, file, body) ==
    LET u == [t EXCEPT !.running = TRUE] IN
    IF ExecThrows(file) THEN RunTestCatch(u, ExecError) ELSE exec(u, file, body)

\* whether the suite started by runTest has signalled completion when runTest returns
CompletesSynchronously(file, body) == ExecThrows(file) \/ body.end \in {"done", "throw"}

\* what the suite did while runTest ran it: a file exec rejects runs no script
NoBody == [asserts |-> <<>>, end |-> "none"]
Ran(file, body) ==
    IF ExecThrows(file) THEN [asserts |-> <<>>, end |-> "rejected"] ELSE body

\* a variant of the cursor update that leaves the cursor where it is
NextCursorStuck(c) == c

\* current++, line 497
NextCursor(c) == c + 1

\* a variant of the polling callback that does not wait for the running suite
TickNeverWaits(t) == FALSE

\* the polling callback of runSuites returns at once while a suite is running
TickReturnsEarly(t) == t.running

\* a variant of renderFailureDetails that lists the first failure only
renderFirstFailure(failures) ==
    IF Len(failures) = 0 THEN <<>>
    ELSE <<Line("Details for the failed tests", "PARAMETER", NullFile, <<Len(failures)>>),
           Line("In", "", failures[1].file, <<>>),
           Line(failures[1].message.v, "COMMENT", NullFile, <<>>)>>

\* Tester.renderFailureDetails: the lines it writes
renderFailureDetails(failures) ==
    IF Len(failures) = 0 THEN <<>>
    ELSE <<Line("Details for the failed tests", "PARAMETER", NullFile, <<Len(failures)>>)>>
         \o [i \in 1..(2 * Len(failures)) |->
                IF i % 2 = 1
                THEN Line("In", "", failures[(i + 1) \div 2].file, <<>>)
                ELSE Line(failures[i \div 2].message.v, "COMMENT", NullFile, <<>>)]

\* the report log of a tester: the path of the log file, or none
LogFile == <<Name("log", "xml")>>
SaveOptions == {NullFile, LogFile}

\* a variant of the save of the report log without the catch clause
WriteReportUncaught(save, writeThrows) ==
    IF save = NullFile THEN [lines |-> <<>>, escaped |-> FALSE]
    ELSE IF writeThrows
         THEN [lines |-> <<>>, escaped |-> TRUE]
         ELSE [lines |-> <<Line("Result log stored in", "INFO", save, <<>>)>>,
               escaped |-> FALSE]

\* renderResults, lines 451-458: the save of the report log. writeThrows tells
\* whether fs.write throws; escaped tells whether an exception leaves the
\* statement, lines are the lines written.
WriteReport(save, writeThrows) ==
    IF save = NullFile THEN [lines |-> <<>>, escaped |-> FALSE]
    ELSE IF writeThrows
         THEN [lines |-> <<Line("Unable to write results to", "ERROR", save, <<>>)>>,
               escaped |-> FALSE]
         ELSE [lines |-> <<Line("Result log stored in", "INFO", save, <<>>)>>,
               escaped |-> FALSE]

\* renderResults, line 460: status || 0, for a call without a status
DefaultExitStatus == 0

\* runSuites, line 485: the status of the exit when no test file was found
NoTestExitStatus == 1

\* a variant of the final report whose exit status tells whether a test failed
ReportExitStatusFromResults(t) ==
    IF t.testResults.failed > 0 THEN NoTestExitStatus ELSE DefaultExitStatus

\* the status of the exit of the call renderResults(true) of line 493
ReportExitStatus(t) == DefaultExitStatus

\* Tester.renderResults, as the polling callback calls it: renderResults(true),
\* with no status and no save argument, so that save is options.save. The
\* result holds the lines written, the statuses given to casper.exit (none
\* when the call is not reached) and whether an exception leaves the method.
renderResults(t, opts, writeThrows) ==
    LET save == opts.save
        passed == t.testResults.passed
        failed == t.testResults.failed
        total == passed + failed
        banner == IF total = 0
                  THEN Line("Looks like you didn't run any test.", "RED_BAR", NullFile, <<>>)
                  ELSE Line("tests executed", IF failed > 0 THEN "RED_BAR" ELSE "GREEN_BAR",
                            NullFile, <<total, passed, failed>>)
        details == IF failed > 0 THEN renderFailureDetails(t.testResults.failures) ELSE <<>>
        written == WriteReport(save, writeThrows)
    IN  [lines |-> <<banner>> \o details \o written.lines,
         exits |-> IF written.escaped THEN <<>> ELSE <<ReportExitStatus(t)>>,
         escaped |-> written.escaped]

\* a variant of the polling callback that leaves the timer on after the report
KeepInterval == "active"

\* runSuites, line 494: clearInterval(interval)
ClearInterval == "cleared"

----------------------------------------------------------------------------
\* Bounds of the model

\* the most files in the queue that runSuites builds
MaxQueue == 3
\* the most assertions made by the suites' own code in a run
MaxCalls == 1
\* the most completion signals issued by suites that had already completed
MaxLate == 1

ArgPaths == {PathT, PathEmpty, PathX, PathTxt, PathMissing}
\* runSuites is called with no argument, one path or two paths
ArgLists == {<<>>} \cup {<<p>> : p \in ArgPaths} \cup {<<p, q>> : p \in ArgPaths, q \in ArgPaths}
\* a suite file makes no assertion while it is evaluated, or one
Bodies == [asserts : {<<>>, <<True>>, <<False>>},
           end : {"async", "done", "throw"}]
Conditions == {True, False, Num("1"), Null}
\* how the function given to assertRaises ends: it returns, or it throws a value
FnOutcomes == {[thrown |-> FALSE, value |-> Undefined],
               [thrown |-> TRUE, value |-> Undefined],
               [thrown |-> TRUE, value |-> Err("raised")]}
Subjects == {Str("abc"), Str("xyz")}
Patterns == {{"abc"}, {}}

\* values handed to assertEquals and testEquals: primitives, then arrays and
\* objects over them, then objects holding those
Prims == {Undefined, Null, True, Num("1"), NaN, Str("1"), Fn("function(){}")}
Keys == {"a", "b"}
Flat == {Obj(p) : p \in UNION {[K -> {Undefined, Num("1"), NaN}] : K \in SUBSET Keys}}
        \cup {Arr(p) : p \in UNION {[K -> {Undefined, Num("1")}] : K \in {{}, {"0"}, {"0", "1"}}}}
Nested == {Obj(p) : p \in UNION {[K -> {Undefined, Obj(<<>>), Obj([k \in {"a"} |-> Undefined]),
                                         Obj([k \in {"b"} |-> Undefined])}] : K \in SUBSET Keys}}
EqDomain == Prims \cup Flat \cup Nested
EqArgs == {Num("1"), Str("1"), Obj([k \in {"a"} |-> Num("1")])}

----------------------------------------------------------------------------
\* The state after new Tester(casper, options)

NoCall == [op |-> "none", cond |-> Undefined, ret |-> Undefined]

Init ==
    /\ pc = "constructed"
    /\ running = FALSE
    /\ currentTestFile = NullFile
    /\ testResults = [passed |-> 0, failed |-> 0, failures |-> <<>>]
    /\ testFiles = <<>>
    /\ current = 0
    /\ interval = "none"
    /\ halted = FALSE
    /\ exits = <<>>
    /\ output = <<>>
    /\ started = <<>>
    /\ lastBody = NoBody
    /\ status = <<>>
    /\ late = 0
    /\ calls = 0
    /\ lastCall = NoCall
    /\ v1 = Undefined
    /\ v2 = Undefined
    /\ eqResult = "none"
    /\ options \in [save : SaveOptions]
    /\ arguments = <<>>
    /\ fsWrite = "none"

SetTester(t) ==
    /\ running' = t.running
    /\ currentTestFile' = t.currentTestFile
    /\ testResults' = t.testResults

\* the fields only a direct call of testEquals touches
EqVars == <<v1, v2, eqResult>>
\* the fields only runSuites and its periodic check touch
SchedVars == <<pc, testFiles, current, interval, halted, exits, output, started, lastBody>>

\* Tester.runSuites(args...). casper.exit is the driver's process-exit trigger:
\* the process may end inside the call (halts) or the call may return.
RunSuites ==
    /\ pc = "constructed"
    /\ \E paths \in ArgLists, halts \in BOOLEAN :
        IF Len(paths) = 0
        THEN /\ pc' = "threw"
             /\ UNCHANGED <<running, currentTestFile, testResults, testFiles, current,
                            interval, halted, exits, output, started, lastBody, status,
                            late, calls, lastCall, EqVars, options, arguments, fsWrite>>
        ELSE LET files == ResolveArgs(paths, 1, <<>>)
                 warned == MissingBars(paths, 1)
             IN  /\ Len(files) <= MaxQueue
                 /\ testFiles' = files
                 /\ status' = [i \in 1..Len(files) |-> "queued"]
                 /\ current' = 0
                 /\ IF Len(files) = 0
                    THEN /\ output' = output \o warned
                                  \o <<Bar("No test file found, aborting.", "RED_BAR", NullFile)>>
                         /\ exits' = Append(exits, NoTestExitStatus)
                         /\ halted' = halts
                         /\ interval' = IF halts THEN "none" ELSE "active"
                         /\ pc' = IF halts THEN "exited" ELSE "scheduled"
                    ELSE /\ output' = output \o warned
                         /\ interval' = "active"
                         /\ pc' = "scheduled"
                         /\ UNCHANGED <<exits, halted>>
                 /\ UNCHANGED <<running, currentTestFile, testResults, started, lastBody,
                                late, calls, lastCall, EqVars, options, arguments, fsWrite>>

\* the assertion calls runTest makes for a file: those of the script, and the
\* one that contains an exception
RunTestCalls(file, body) ==
    IF ExecThrows(file) THEN 1
    ELSE Len(body.asserts) + (IF body.end = "throw" THEN 1 ELSE 0)

\* The function given to setInterval, lines 488-499: one firing of the check.
Tick ==
    /\ interval = "active"
    /\ ~halted
    /\ \/ /\ TickReturnsEarly(Tester)
          /\ UNCHANGED vars
       \/ /\ ~TickReturnsEarly(Tester)
          /\ current = Len(testFiles)
          /\ \E writeThrows \in BOOLEAN, halts \in BOOLEAN :
                LET report == renderResults(Tester, options, writeThrows)
                    ended == halts /\ Len(report.exits) > 0
                IN  /\ output' = output \o report.lines
                    /\ exits' = exits \o report.exits
                    /\ halted' = ended
                    /\ interval' = IF ended \/ report.escaped THEN interval ELSE ClearInterval
                    /\ fsWrite' = IF options.save = NullFile THEN fsWrite
                                  ELSE IF writeThrows THEN "threw" ELSE "done"
          /\ UNCHANGED <<pc, running, currentTestFile, testResults, testFiles, current,
                         started, lastBody, status, late, calls, lastCall, EqVars,
                         options, arguments>>
       \/ /\ ~TickReturnsEarly(Tester)
          /\ current # Len(testFiles)
          /\ \E body \in Bodies :
                LET file == testFiles[current + 1] IN
                /\ Len(body.asserts) = 0 \/ calls + Len(body.asserts) <= MaxCalls
                /\ SetTester(runTest(Tester, file, body))
                /\ output' = Append(output, Bar("Test file", "INFO_BAR", file))
                /\ current' = NextCursor(current)
                /\ started' = Append(started, current + 1)
                /\ lastBody' = Ran(file, body)
                /\ status' = [status EXCEPT ![current + 1] =
                                 IF CompletesSynchronously(file, body)
                                 THEN "completed" ELSE "active"]
                /\ calls' = calls + RunTestCalls(file, body)
          /\ UNCHANGED <<pc, testFiles, interval, halted, exits, late, lastCall, EqVars, options, arguments, fsWrite>>

\* a suite's asynchronous work may act while the run is being scheduled
SuiteMayAct(i) ==
    /\ interval = "active"
    /\ ~halted
    /\ i \in 1..Len(testFiles)
    /\ \/ status[i] = "active"
       \/ status[i] = "completed" /\ late < MaxLate

\* what a signal of suite i leaves of the suites' progress
Signalled(i) ==
    /\ status' = [status EXCEPT ![i] = "completed"]
    /\ late' = IF status[i] = "completed" THEN late + 1 ELSE late

\* A callback of suite i calls casper.test.done()
Done(i) ==
    /\ SuiteMayAct(i)
    /\ SetTester(done(Tester))
    /\ Signalled(i)
    /\ UNCHANGED <<SchedVars, calls, lastCall, EqVars, options, arguments, fsWrite>>

\* The driver reports that a step of suite i threw: 'step.error'
OnStepError(i) ==
    /\ SuiteMayAct(i)
    /\ SetTester(StepErrorListener(Tester, StepError))
    /\ Signalled(i)
    /\ calls' = calls + 1
    /\ UNCHANGED <<SchedVars, lastCall, EqVars, options, arguments, fsWrite>>

\* The code of a started suite may call the assertion methods
MayAssert ==
    /\ interval = "active"
    /\ ~halted
    /\ Len(started) > 0
    /\ calls < MaxCalls

Called(op, cond, r) ==
    /\ lastCall' = [op |-> op, cond |-> cond, ret |-> r]
    /\ calls' = calls + 1
    /\ UNCHANGED <<SchedVars, status, late, EqVars, options, arguments, fsWrite>>

CallAssert ==
    /\ MayAssert
    /\ \E c \in Conditions :
        /\ SetTester(assert(Tester, c, Str("m")))
        /\ Called("assert", c, AssertReturn(c))

\* assertNot returns what assert returns for !condition
CallAssertNot ==
    /\ MayAssert
    /\ \E c \in Conditions :
        /\ SetTester(assertNot(Tester, c, Str("m")))
        /\ Called("assertNot", c, AssertReturn(Bool(~Truthy(c))))

CallAssertEquals ==
    /\ MayAssert
    /\ \E a \in EqArgs, b \in EqArgs :
        /\ SetTester(assertEquals(Tester, a, b, Str("m")))
        /\ Called("assertEquals", Undefined, Undefined)

CallAssertMatch ==
    /\ MayAssert
    /\ \E s \in Subjects, p \in Patterns :
        /\ SetTester(assertMatch(Tester, s, p, Str("m")))
        /\ Called("assertMatch", Undefined, Undefined)

CallAssertRaises ==
    /\ MayAssert
    /\ \E outcome \in FnOutcomes :
        /\ SetTester(assertRaises(Tester, outcome, Str("m")))
        /\ Called("assertRaises", Bool(outcome.thrown), Undefined)

CallPass ==
    /\ MayAssert
    /\ SetTester(pass(Tester, Str("m")))
    /\ Called("pass", Undefined, Undefined)

CallFail ==
    /\ MayAssert
    /\ SetTester(fail(Tester, Str("m")))
    /\ Called("fail", Undefined, Undefined)

Next ==
    \/ RunSuites
    \/ Tick
    \/ \E i \in 1..Len(testFiles) : Done(i)
    \/ \E i \in 1..Len(testFiles) : OnStepError(i)
    \/ CallAssert
    \/ CallAssertNot
    \/ CallAssertEquals
    \/ CallAssertMatch
    \/ CallAssertRaises
    \/ CallPass
    \/ CallFail

Spec == Init /\ [][Next]_vars

----------------------------------------------------------------------------
\* Direct calls of testEquals: the arguments are drawn from EqDomain

InitEq ==
    /\ pc = "constructed"
    /\ running = FALSE
    /\ currentTestFile = NullFile
    /\ testResults = [passed |-> 0, failed |-> 0, failures |-> <<>>]
    /\ testFiles = <<>>
    /\ current = 0
    /\ interval = "none"
    /\ halted = FALSE
    /\ exits = <<>>
    /\ output = <<>>
    /\ started = <<>>
    /\ lastBody = NoBody
    /\ status = <<>>
    /\ late = 0
    /\ calls = 0
    /\ lastCall = NoCall
    /\ v1 \in EqDomain
    /\ v2 \in EqDomain
    /\ eqResult = "none"
    /\ options = [save |-> NullFile]
    /\ arguments = <<>>
    /\ fsWrite = "none"

CallTestEquals ==
    /\ eqResult = "none"
    /\ eqResult' = IF testEquals(v1, v2) THEN "true" ELSE "false"
    /\ UNCHANGED <<pc, running, currentTestFile, testResults, testFiles, current,
                   interval, halted, exits, output, started, lastBody, status, late,
                   calls, lastCall, v1, v2, options, arguments, fsWrite>>

NextEq == CallTestEquals

SpecEq == InitEq /\ [][NextEq]_vars

----------------------------------------------------------------------------
\* The queue of runSuites alone: the arguments are drawn from QueueArgLists
\* and lines 470-482 of runSuites build the queue from them

\* runSuites is called with up to three paths
QueueArgLists == ArgLists \cup {<<p, q, r>> : p \in ArgPaths, q \in ArgPaths, r \in ArgPaths}

InitQueue ==
    /\ pc = "constructed"
    /\ running = FALSE
    /\ currentTestFile = NullFile
    /\ testResults = [passed |-> 0, failed |-> 0, failures |-> <<>>]
    /\ testFiles = <<>>
    /\ current = 0
    /\ interval = "none"
    /\ halted = FALSE
    /\ exits = <<>>
    /\ output = <<>>
    /\ started = <<>>
    /\ lastBody = NoBody
    /\ status = <<>>
    /\ late = 0
    /\ calls = 0
    /\ lastCall = NoCall
    /\ v1 = Undefined
    /\ v2 = Undefined
    /\ eqResult = "none"
    /\ options = [save |-> NullFile]
    /\ arguments \in QueueArgLists
    /\ fsWrite = "none"

\* runSuites, lines 470-482: it throws without arguments, and builds the
\* queue otherwise
BuildQueue ==
    /\ pc = "constructed"
    /\ IF Len(arguments) = 0
       THEN pc' = "threw" /\ UNCHANGED testFiles
       ELSE pc' = "resolved" /\ testFiles' = ResolveArgs(arguments, 1, <<>>)
    /\ UNCHANGED <<running, currentTestFile, testResults, current, interval, halted,
                   exits, output, started, lastBody, status, late, calls, lastCall,
                   EqVars, options, arguments, fsWrite>>

NextQueue == BuildQueue

SpecQueue == InitQueue /\ [][NextQueue]_vars

----------------------------------------------------------------------------
\* Fair scheduling: the timer keeps firing, and the suite that is executing
\* eventually signals completion (its code calls done() or the driver
\* reports a step error for it).

SuiteSignals ==
    \E i \in 1..Len(testFiles) : status[i] = "active" /\ (Done(i) \/ OnStepError(i))

FairSpec == Spec /\ WF_vars(Tick) /\ WF_vars(SuiteSignals)

----------------------------------------------------------------------------
\* Properties

Active == {i \in 1..Len(testFiles) : status[i] = "active"}
RenderBanners == {"Looks like you didn't run any test.", "tests executed"}
Reported == \E i \in 1..Len(output) : output[i].text \in RenderBanners
Finished == Reported /\ (halted \/ interval = "cleared")
Failures == testResults.failures
ErrorRecords(fs) == {k \in 1..Len(fs) : fs[k].message.tag = "error"}
FailingAsserts(conds) == Cardinality({k \in 1..Len(conds) : conds[k] # True})

\* C1: at most one suite is executing at any instant, and a suite is started
\* only after the suite before it in the queue has itself signalled completion.
C1_OneSuiteAtATime ==
    /\ Cardinality(Active) <= 1
    /\ \A n \in 2..Len(testFiles) : status[n] # "queued" => status[n - 1] = "completed"

\* C2: runTest is called for the files of the queue in queue order, once each:
\* the calls made so far are for the first `current` positions, the files
\* announced are those files, and the final report comes after the last call.
C2_EachFileOnceInOrder ==
    /\ current <= Len(testFiles)
    /\ started = [i \in 1..current |-> i]
    /\ SelectSeq(output, LAMBDA l : l.text = "Test file")
         = [i \in 1..current |-> Bar("Test file", "INFO_BAR", testFiles[i])]
    /\ Reported => current = Len(testFiles)

\* a queue of three files was run to the final report
C2_Witness ==
    /\ Finished
    /\ Len(testFiles) = 3
    /\ started = <<1, 2, 3>>
    /\ \A i \in 1..3 : status[i] = "completed"

\* C3: under fair scheduling, once the periodic check is installed the run
\* reaches Finished: the final report is issued and the check has stopped.
C3_RunTerminates == (pc = "scheduled") ~> Finished

\* a run with a script that threw and a file exec rejected reached Finished
C3_Witness ==
    /\ Finished
    /\ Len(testFiles) >= 2
    /\ \E k \in 1..Len(Failures) : Failures[k].message = ScriptError
    /\ \E k \in 1..Len(Failures) : Failures[k].message = ExecError

\* C4: a step of the periodic check that starts a suite whose execution throws
\* (the script throws, or exec rejects the file) records the exception as one
\* failure beyond the failures of the script's own assertions, leaves
\* running false and the check installed, so that the next file can be started.
C4_CrashContained ==
    [][(Len(started') = Len(started) + 1 /\ lastBody'.end \in {"throw", "rejected"}) =>
        LET fs == testResults'.failures
            new == SubSeq(fs, Len(Failures) + 1, Len(fs))
        IN  /\ running' = FALSE
            /\ interval' = "active" /\ ~halted'
            /\ testResults'.failed = testResults.failed + FailingAsserts(lastBody'.asserts) + 1
            /\ Len(new) = FailingAsserts(lastBody'.asserts) + 1
            /\ Cardinality(ErrorRecords(new)) = 1
            /\ new[Len(new)].message =
                 (IF lastBody'.end = "throw" THEN ScriptError ELSE ExecError)
    ]_vars

\* a suite threw, and the suite after it was started
C4_Witness ==
    /\ Len(started) = 2
    /\ lastBody.end = "async"
    /\ late = 0
    /\ calls = 1
    /\ Len(Failures) = 1
    /\ Failures[1].message = ScriptError
    /\ status[2] = "active"

\* C5: a step.error reported by the driver is recorded as one failing
\* assertion carrying the error, and is followed by done(): running is false.
C5_StepErrorContained ==
    [][(\E i \in 1..Len(testFiles) : OnStepError(i)) =>
        /\ testResults'.failed = testResults.failed + 1
        /\ testResults'.passed = testResults.passed
        /\ testResults'.failures =
             Append(Failures, [message |-> StepError, file |-> currentTestFile])
        /\ running' = FALSE
        /\ interval' = "active" /\ ~halted'
    ]_vars

\* the first suite had a step error, and the second suite was started after it
C5_Witness ==
    /\ Len(started) = 2
    /\ late = 0
    /\ calls = 1
    /\ Failures = <<[message |-> StepError, file |-> testFiles[1]]>>
    /\ status[1] = "completed"
    /\ status[2] = "active"
    /\ running

\* C6: passed + failed is the number of assertion calls made, failures holds
\* one record per failed assertion, and no step decreases a counter or drops
\* a record.
C6_CountersConsistent ==
    /\ [](/\ testResults.passed + testResults.failed = calls
          /\ Len(Failures) = testResults.failed)
    /\ [][/\ testResults'.passed >= testResults.passed
          /\ testResults'.failed >= testResults.failed
          /\ Len(testResults'.failures) >= Len(Failures)
          /\ SubSeq(testResults'.failures, 1, Len(Failures)) = Failures]_vars

\* an assertEquals that passed, a contained crash and a step error were counted
C6_Witness ==
    /\ lastCall.op = "assertEquals"
    /\ testResults.passed = 1
    /\ testResults.failed >= 2
    /\ \E k \in 1..Len(Failures) : Failures[k].message = StepError
    /\ \E k \in 1..Len(Failures) : Failures[k].message \in {ScriptError, ExecError}

\* C7: a call assert(c, m) increments exactly one of passed and failed by one,
\* and it is failed iff c is not the boolean true.
C7_AssertCountsOnce ==
    [][CallAssert =>
        IF lastCall'.cond = True
        THEN /\ testResults'.passed = testResults.passed + 1
             /\ testResults'.failed = testResults.failed
        ELSE /\ testResults'.passed = testResults.passed
             /\ testResults'.failed = testResults.failed + 1
    ]_vars

\* assert(1, m), a truthy condition that is not true, was counted as a failure
C7_Witness ==
    /\ calls = 1
    /\ lastCall.op = "assert"
    /\ lastCall.cond = Num("1")
    /\ testResults.failed = 1
    /\ testResults.passed = 0

\* C8: assert returns the boolean outcome of the assertion, and assertNot
\* returns that of the assertion it makes.
C8_AssertReturnsOutcome ==
    /\ lastCall.op = "assert" => lastCall.ret = Bool(lastCall.cond = True)
    /\ lastCall.op = "assertNot" => lastCall.ret = Bool(~Truthy(lastCall.cond))

\* runSuites was called with arguments that resolve to no file
NoFileFound == pc \in {"scheduled", "exited"} /\ Len(testFiles) = 0

\* C9: when the arguments resolve to no file, runSuites writes the banner and
\* asks for exit status 1, and nothing of the scheduler happens: no periodic
\* check, no runTest, no final report, no exit with status 0.
C9_NoTestsAborts ==
    NoFileFound =>
        /\ \E i \in 1..Len(output) : output[i].text = "No test file found, aborting."
        /\ Len(exits) > 0 /\ exits[1] = NoTestExitStatus
        /\ interval = "none"
        /\ started = <<>>
        /\ ~Reported
        /\ \A i \in 1..Len(exits) : exits[i] # 0

\* equality as the comparator's contract states it: arrays and objects are
\* equal iff they have as many keys and every key of the first is a key of
\* the second with an equal value; other values are compared as the code does
RECURSIVE KeywiseEquals(_, _)
KeywiseEquals(a, b) ==
    IF a.tag = b.tag /\ a.tag \in {"object", "array"}
    THEN /\ Cardinality(ObjectKeys(a)) = Cardinality(ObjectKeys(b))
         /\ \A k \in ObjectKeys(a) :
                k \in ObjectKeys(b) /\ KeywiseEquals(a.props[k], b.props[k])
    ELSE testEquals(a, b)

\* C10: for two arrays or two objects, testEquals is true iff they have the
\* same number of keys and every key of the first is a key of the second
\* with a recursively equal value.
C10_ObjectsEqualKeywise ==
    (eqResult # "none" /\ v1.tag = v2.tag /\ v1.tag \in {"object", "array"}) =>
        (eqResult = "true" <=> KeywiseEquals(v1, v2))

\* C11: testEquals(a, a) is true for every value a of the domain: null,
\* undefined, booleans, numbers with NaN, strings, functions, arrays and
\* objects, nested.
C11_Reflexive ==
    (eqResult # "none" /\ v1 = v2) => eqResult = "true"

\* C12: a call of assertRaises records exactly one outcome: a pass, and no
\* failure, when the function throws (whatever it throws); a failure, and no
\* pass, when it returns.
C12_AssertRaisesOneOutcome ==
    [][CallAssertRaises =>
        IF lastCall'.cond = True
        THEN /\ testResults'.passed = testResults.passed + 1
             /\ testResults'.failed = testResults.failed
             /\ testResults'.failures = Failures
        ELSE /\ testResults'.passed = testResults.passed
             /\ testResults'.failed = testResults.failed + 1
             /\ Len(testResults'.failures) = Len(Failures) + 1
    ]_vars

\* a call of assertRaises with a function that throws was counted as a pass
C12_Witness ==
    /\ calls = 1
    /\ lastCall.op = "assertRaises"
    /\ lastCall.cond = True
    /\ testResults.passed = 1
    /\ testResults.failed = 0

\* C13: there is no timeout. While running is true, no step starts another
\* suite, advances the cursor, writes a banner, requests an exit or stops the
\* polling, however many ticks fire; and running goes from true to false only
\* in a step that calls done(): a callback's done() or the step.error listener.
C13_NoTimeout ==
    [][running =>
        /\ UNCHANGED <<testFiles, current, started, output, exits, interval, halted>>
        /\ ~running' => \E i \in 1..Len(testFiles) : Done(i) \/ OnStepError(i)
    ]_vars

\* a suite is running, files are still queued behind it and the polling is on
C13_Witness ==
    /\ running
    /\ interval = "active"
    /\ ~halted
    /\ current >= 1
    /\ current < Len(testFiles)
    /\ status[current] = "active"

\* a step in which renderResults writes its banner, and the lines it writes
ReportStep ==
    /\ Len(output') > Len(output)
    /\ output'[Len(output) + 1].text \in RenderBanners
ReportLines == SubSeq(output', Len(output) + 1, Len(output'))

\* C14: renderResults writes the no-tests failure banner iff passed + failed
\* is 0; otherwise a banner with total, passed and failed, in success style
\* iff failed is 0 and in failure style otherwise; and iff failed > 0 it
\* writes one detail entry per failure record, in the order the records were
\* stored, each with the record's file and message.
C14_ReportContents ==
    [][ReportStep =>
        LET new == ReportLines
            banner == new[1]
            passed == testResults.passed
            failed == testResults.failed
            entries == {i \in 1..Len(new) : new[i].text = "In"}
        IN  /\ banner.text = "Looks like you didn't run any test." <=> passed + failed = 0
            /\ passed + failed = 0 => banner.style = "RED_BAR"
            /\ passed + failed # 0 =>
                  /\ banner.text = "tests executed"
                  /\ banner.nums = <<passed + failed, passed, failed>>
                  /\ banner.style = "GREEN_BAR" <=> failed = 0
                  /\ banner.style = "RED_BAR" <=> failed # 0
            /\ Cardinality(entries) = IF failed > 0 THEN Len(Failures) ELSE 0
            /\ failed > 0 =>
                  \A k \in 1..Len(Failures) :
                      /\ new[2 * k + 1].text = "In"
                      /\ new[2 * k + 1].file = Failures[k].file
                      /\ new[2 * k + 2].text = Failures[k].message.v
    ]_vars

\* a report of a run with a pass and two failures that come from different files
C14_Witness ==
    /\ Reported
    /\ testResults.passed >= 1
    /\ testResults.failed >= 2
    /\ Failures[1].file # Failures[2].file
    /\ \E i \in 1..Len(output) : output[i].text = "In" /\ output[i].file = Failures[2].file

\* C15: when a save path is configured and the write of the report log
\* throws, renderResults writes the warning as its last line and nothing
\* escapes: the results are unchanged and casper.exit is still called with
\* the status of the call.
C15_WriteErrorContained ==
    [][(fsWrite # "threw" /\ fsWrite' = "threw") =>
        /\ ReportStep
        /\ output'[Len(output')] =
              Line("Unable to write results to", "ERROR", options.save, <<>>)
        /\ testResults' = testResults
        /\ exits' = Append(exits, DefaultExitStatus)
    ]_vars

\* the write of the log threw in the report of a run with a failure
C15_Witness ==
    /\ fsWrite = "threw"
    /\ options.save = LogFile
    /\ testResults.failed > 0
    /\ Len(exits) = 1
    /\ output[Len(output)].text = "Unable to write results to"

\* the files of a directory in depth-first order, each subdirectory expanded
\* at its own position among the entries listed
RECURSIVE DepthFirst(_)
RECURSIVE DepthFirstFrom(_, _, _)
DepthFirstFrom(dir, listed, i) ==
    IF i > Len(listed) THEN <<>>
    ELSE LET entry == Absolute(PathJoin(dir, <<listed[i]>>))
         IN  (IF listed[i] \in {Dot, DotDot} THEN <<>>
              ELSE IF IsDirectory(entry) THEN DepthFirst(entry)
              ELSE IF IsJsFile(entry) THEN <<entry>>
              ELSE <<>>)
             \o DepthFirstFrom(dir, listed, i + 1)
DepthFirst(dir) == DepthFirstFrom(dir, FsList(dir), 1)

\* the queue in which every argument keeps its position: a directory gives
\* its files in depth-first order, a file gives itself
RECURSIVE InPlaceQueue(_, _)
InPlaceQueue(paths, i) ==
    IF i > Len(paths) THEN <<>>
    ELSE (IF IsDirectory(paths[i]) THEN DepthFirst(paths[i])
          ELSE IF IsFile(paths[i]) THEN <<paths[i]>>
          ELSE <<>>)
         \o InPlaceQueue(paths, i + 1)

\* C16: the queue built by runSuites lists the files in depth-first order as
\* the filesystem lists the entries, the files of a subdirectory at the
\* position of that subdirectory among its siblings, and the arguments keep
\* their order.
C16_DepthFirstInPlace ==
    pc = "resolved" => testFiles = InPlaceQueue(arguments, 1)

\* C17: the final report is written once in a run, only by a polling tick
\* that finds running false and every queued file started; that tick ends the
\* polling, by the exit it requests or by clearing the timer, and after it no
\* suite is started and no other report or exit request is made.
C17_ReportedOnce ==
    [][/\ ReportStep =>
            /\ ~Reported
            /\ ~running
            /\ current = Len(testFiles)
            /\ Len(started) = Len(testFiles)
            /\ Cardinality({i \in 1..Len(output') : output'[i].text \in RenderBanners}) = 1
            /\ Len(exits') = Len(exits) + 1
            /\ halted' \/ interval' = "cleared"
       /\ Reported => UNCHANGED <<output, exits, started, current, running>>
    ]_vars

\* the report of a run of two suites or more was written, casper.exit
\* returned and the timer was cleared
C17_Witness ==
    /\ Reported
    /\ ~halted
    /\ interval = "cleared"
    /\ Len(started) >= 2
    /\ Len(exits) = 1

\* C18: every failure record stored while a queued suite is started, by an
\* assertion of its script, by the containment of its exception or by exec
\* rejecting its file, carries the path of that suite in its file field.
C18_FailureCarriesOwnFile ==
    [][started' # started =>
        \A k \in (Len(Failures) + 1)..Len(testResults'.failures) :
            testResults'.failures[k].file = testFiles[current + 1]
    ]_vars

\* C19: when the scheduler reports the run of one suite or more, casper.exit
\* is called with status 0, whatever the value of failed.
C19_ExitStatusZero ==
    [][(ReportStep /\ Len(testFiles) >= 1) => exits' = Append(exits, 0)]_vars

\* the run of a suite that failed was reported and the exit requested with 0
C19_Witness ==
    /\ Reported
    /\ Len(testFiles) >= 1
    /\ testResults.failed > 0
    /\ exits = <<0>>

\* C20: testEquals is symmetric: testEquals(a, b) and testEquals(b, a) agree
\* for all values a and b of the domain, objects with keys whose value is
\* undefined included.
C20_Symmetric ==
    eqResult # "none" => (eqResult = "true" <=> testEquals(v2, v1))

====
